---- MODULE Spec2Model ----
(***************************************************************************)
(* Transaction resolution of the REST service                              *)
(* (crates/sui-rest-api/src/transactions/resolve.rs).                      *)
(*                                                                         *)
(* The chain state read through the StateReader is the variable `objects`  *)
(* (every version of every object) together with `owned` (the account      *)
(* index of the gas owner).  Each function of resolve.rs is an operator    *)
(* computed as the code computes it; the specifications below apply them   *)
(* to requests drawn from bounded sets.                                    *)
(***************************************************************************)
EXTENDS Integers, Sequences, FiniteSets, TLC

VARIABLES
    objects,    \* chain state: object id -> its versions, oldest first
    owned,      \* account_owned_objects_info_iter(owner): sequence of infos
    wrapping,   \* build without overflow checks: u64 arithmetic wraps
    req,        \* the request (or the arguments of the function applied)
    pc,         \* position of the handler
    ret,        \* what the call returned; None while it has not returned
    prev,       \* what the previous identical call returned on this snapshot
    tx,         \* the transaction being resolved (resolve_transaction locals)
    calls       \* the calls resolve_transaction has made, in order

vars == <<objects, owned, wrapping, req, pc, ret, prev, tx, calls>>

----------------------------------------------------------------------------
(* Option and Result *)

None == <<>>
Some(x) == <<x>>
IsSome(o) == Len(o) > 0
Unwrap(o) == o[1]

Ok(v) == [ok |-> TRUE, val |-> v]
Err(e) == [ok |-> FALSE, err |-> e]

NotFound(object_id, version) ==
    [kind |-> "NotFound", object_id |-> object_id, version |-> version]
InvalidInput(message) == [kind |-> "InvalidInput", message |-> message]

RECURSIVE SeqsUpTo(_, _)
SeqsUpTo(S, n) ==
    IF n = 0 THEN {<<>>}
    ELSE LET shorter == SeqsUpTo(S, n - 1)
         IN  shorter \cup {Append(s, x) : s \in {t \in shorter : Len(t) = n - 1}, x \in S}

Range(s) == {s[i] : i \in 1..Len(s)}
Max(S) == CHOOSE m \in S : \A x \in S : x <= m

----------------------------------------------------------------------------
(* Bounds of the model *)

MaxVersion == 3
MaxCommands == 2
MaxArgs == 2
MaxInputs == 2
MaxCoins == 3
WordBits == 16    \* u64 and i64 are modelled WordBits wide

----------------------------------------------------------------------------
(* Chain state *)

Sender == "0xsender"
ObjectIds == {"0xc1", "0xc2", "0xc3", "0xnft", "0xstale", "0xshared", "0xpkg", "0xgone"}
Digests == {"d1", "d2", "d3"}

AddressOwner(a) == [kind |-> "AddressOwner", address |-> a, initial_shared_version |-> 0]
SharedOwner(v) == [kind |-> "Shared", address |-> "", initial_shared_version |-> v]
ImmutableOwner == [kind |-> "Immutable", address |-> "", initial_shared_version |-> 0]

NoModules == [module \in {} |-> <<>>]

Coin(id, version, digest, value) ==
    [id |-> id, version |-> version, digest |-> digest, owner |-> AddressOwner(Sender),
     type_ |-> "gas_coin", value |-> value, modules |-> NoModules]

\* StateReader::get_object: the latest version of the object, if any.
get_object(id) ==
    IF Len(objects[id]) = 0 THEN None ELSE Some(objects[id][Len(objects[id])])

\* StateReader::get_object_by_key: the object at exactly that version, if any.
get_object_by_key(id, version) ==
    LET at == {i \in 1..Len(objects[id]) : objects[id][i].version = version}
    IN  IF at = {} THEN None ELSE Some(objects[id][CHOOSE i \in at : TRUE])

----------------------------------------------------------------------------
(* resolve_object_reference *)

UnresolvedObjectReference(object_id, version, digest) ==
    [object_id |-> object_id, version |-> version, digest |-> digest]

ObjectRef(id, v, d) == [id |-> id, version |-> v, digest |-> d]

\* The lookup of resolve_object_reference: by key when a version is given,
\* the latest object otherwise.
fetch_latest_always(unresolved) == get_object(unresolved.object_id)

fetch_for_reference(unresolved) ==
    IF IsSome(unresolved.version)
    THEN get_object_by_key(unresolved.object_id, Unwrap(unresolved.version))
    ELSE get_object(unresolved.object_id)

resolve_without_digest_check(unresolved) ==
    LET found == fetch_for_reference(unresolved)
    IN  IF ~IsSome(found) THEN Err(NotFound(unresolved.object_id, unresolved.version))
        ELSE Ok(ObjectRef(unresolved.object_id, Unwrap(found).version, Unwrap(found).digest))

resolve_object_reference(unresolved) ==
    LET found == fetch_for_reference(unresolved)
    IN  IF ~IsSome(found)
        THEN Err(NotFound(unresolved.object_id, unresolved.version))
        ELSE LET v == Unwrap(found).version
                 d == Unwrap(found).digest
             IN  IF IsSome(unresolved.digest) /\ Unwrap(unresolved.digest) # d
                 THEN Err(InvalidInput("provided digest doesn't match"))
                 ELSE Ok(ObjectRef(unresolved.object_id, v, d))

----------------------------------------------------------------------------
(* Commands and their arguments (indices are zero-based, as in the code) *)

Input(i) == [kind |-> "Input", idx |-> i]
Result(i) == [kind |-> "Result", idx |-> i]

MoveCall(package, module, function, arguments) ==
    [kind |-> "MoveCall", package |-> package, module |-> module,
     function |-> function, arguments |-> arguments]
TransferObjects(objs, address) ==
    [kind |-> "TransferObjects", objects |-> objs, address |-> address]
SplitCoins(coin, amounts) == [kind |-> "SplitCoins", coin |-> coin, amounts |-> amounts]
MergeCoins(coin, coins_to_merge) ==
    [kind |-> "MergeCoins", coin |-> coin, coins_to_merge |-> coins_to_merge]
Publish == [kind |-> "Publish"]
MakeMoveVector(elements) == [kind |-> "MakeMoveVector", elements |-> elements]
Upgrade(ticket) == [kind |-> "Upgrade", ticket |-> ticket]

matches_any_argument_kind(arg, arg_idx) == arg.idx = arg_idx

matches_input_arg(arg, arg_idx) == arg.kind = "Input" /\ arg.idx = arg_idx

\* Iterator::position over a list of arguments: the zero-based place of the
\* first element that is the input arg_idx.
position(elems, arg_idx) ==
    LET hits == {i \in 1..Len(elems) : matches_input_arg(elems[i], arg_idx)}
    IN  IF hits = {} THEN None
        ELSE Some((CHOOSE i \in hits : \A j \in hits : i <= j) - 1)

\* The closure of find_arg_uses for one command: None when the command does
\* not use the input, Some(slot) when it does, the slot itself optional.
use_in_command(arg_idx, command) ==
    LET found(elems) == IF IsSome(position(elems, arg_idx))
                        THEN Some(position(elems, arg_idx)) ELSE None
    IN  CASE command.kind = "MoveCall" -> found(command.arguments)
          [] command.kind = "TransferObjects" -> found(command.objects)
          [] command.kind = "SplitCoins" ->
                IF matches_input_arg(command.coin, arg_idx) THEN Some(None) ELSE None
          [] command.kind = "MergeCoins" ->
                IF matches_input_arg(command.coin, arg_idx) THEN Some(None)
                ELSE found(command.coins_to_merge)
          [] command.kind = "Publish" -> None
          [] command.kind = "MakeMoveVector" -> found(command.elements)
          [] command.kind = "Upgrade" ->
                IF matches_input_arg(command.ticket, arg_idx) THEN Some(None) ELSE None

RECURSIVE find_arg_uses_from(_, _, _)
find_arg_uses_from(arg_idx, commands, i) ==
    IF i > Len(commands) THEN <<>>
    ELSE LET use == use_in_command(arg_idx, commands[i])
             rest == find_arg_uses_from(arg_idx, commands, i + 1)
         IN  IF IsSome(use)
             THEN <<[command |-> commands[i], idx |-> Unwrap(use)]>> \o rest
             ELSE rest

\* find_arg_uses: the (command, optional slot) pairs that use the input, in
\* command order.
find_arg_uses(arg_idx, commands) == find_arg_uses_from(arg_idx, commands, 1)

----------------------------------------------------------------------------
(* called_packages: the normalized modules of every package a MoveCall names *)

ParamKinds == {"U64", "Reference", "MutableReference", "Struct"}

RECURSIVE called_packages_from(_, _, _)
called_packages_from(commands, i, packages) ==
    IF i > Len(commands) THEN Ok(packages)
    ELSE IF commands[i].kind # "MoveCall"
         THEN called_packages_from(commands, i + 1, packages)
         ELSE LET package == get_object(commands[i].package)
              IN  IF ~IsSome(package)
                  THEN Err(NotFound(commands[i].package, None))
                  ELSE IF Unwrap(package).type_ # "package"
                       THEN Err(InvalidInput("object is not a package"))
                       ELSE called_packages_from(commands, i + 1,
                                [id \in DOMAIN packages \cup {commands[i].package} |->
                                    IF id = commands[i].package
                                    THEN Unwrap(package).modules
                                    ELSE packages[id]])

called_packages(commands) ==
    called_packages_from(commands, 1, [id \in {} |-> NoModules])

----------------------------------------------------------------------------
(* resolve_arg *)

Pure(value) == [kind |-> "Pure", value |-> value]
ImmutableOrOwned(obj_ref) == [kind |-> "ImmutableOrOwned", obj_ref |-> obj_ref]
Shared(object_id, initial_shared_version, mutable) ==
    [kind |-> "Shared", object_id |-> object_id,
     initial_shared_version |-> initial_shared_version, mutable |-> mutable]
Receiving(obj_ref) == [kind |-> "Receiving", obj_ref |-> obj_ref]

CallArgPure(value) == [kind |-> "Pure", value |-> value]
ImmOrOwnedObject(ref) == [kind |-> "ImmOrOwnedObject", ref |-> ref]
SharedObject(id, initial_shared_version, mutable) ==
    [kind |-> "SharedObject", id |-> id,
     initial_shared_version |-> initial_shared_version, mutable |-> mutable]
ReceivingObject(ref) == [kind |-> "Receiving", ref |-> ref]

\* The function a MoveCall names, looked up in the called packages:
\* package, then module, then function.
find_function(packages, move_call) ==
    IF /\ move_call.package \in DOMAIN packages
       /\ move_call.module \in DOMAIN packages[move_call.package]
       /\ move_call.function \in DOMAIN packages[move_call.package][move_call.module]
    THEN Some(packages[move_call.package][move_call.module][move_call.function])
    ELSE None

\* The loop over the use sites of a shared input, from site i on, entered
\* with mutable = false: Ok(mutable) or the error of the first failing lookup.
\* A site that sets mutable ends the loop.
RECURSIVE scan_uses(_, _, _)
scan_uses(packages, uses, i) ==
    IF i > Len(uses) THEN Ok(FALSE)
    ELSE LET command == uses[i].command
             idx == uses[i].idx
         IN  IF command.kind = "MoveCall" /\ IsSome(idx)
             THEN LET function == find_function(packages, command)
                  IN  IF ~IsSome(function)
                      THEN Err(InvalidInput("unable to find function"))
                      ELSE IF Unwrap(idx) + 1 > Len(Unwrap(function))
                           THEN Err(InvalidInput("invalid input parameter"))
                           ELSE IF Unwrap(function)[Unwrap(idx) + 1]
                                       \in {"MutableReference", "Struct"}
                                THEN Ok(TRUE)
                                ELSE scan_uses(packages, uses, i + 1)
             ELSE IF command.kind \in {"SplitCoins", "MergeCoins", "MakeMoveVector"}
                  THEN Ok(TRUE)
                  ELSE scan_uses(packages, uses, i + 1)

\* The Shared arm with the caller's assertions believed.
resolve_shared_as_asserted(packages, commands, arg, arg_idx) ==
    LET object == get_object(arg.object_id)
    IN  IF ~IsSome(object) THEN Err(NotFound(arg.object_id, None))
        ELSE IF Unwrap(object).owner.kind # "Shared"
             THEN Err(InvalidInput("object is not a shared object"))
             ELSE LET scanned == scan_uses(packages, find_arg_uses(arg_idx, commands), 1)
                  IN  IF ~scanned.ok THEN scanned
                      ELSE Ok(SharedObject(arg.object_id, arg.initial_shared_version,
                                           arg.mutable \/ scanned.val))

\* The Shared arm of resolve_arg.
resolve_shared(packages, commands, arg, arg_idx) ==
    LET object == get_object(arg.object_id)
    IN  IF ~IsSome(object) THEN Err(NotFound(arg.object_id, None))
        ELSE IF Unwrap(object).owner.kind # "Shared"
             THEN Err(InvalidInput("object is not a shared object"))
             ELSE LET scanned == scan_uses(packages, find_arg_uses(arg_idx, commands), 1)
                  IN  IF ~scanned.ok THEN scanned
                      ELSE Ok(SharedObject(arg.object_id,
                                           Unwrap(object).owner.initial_shared_version,
                                           scanned.val))

resolve_arg(packages, commands, arg, arg_idx) ==
    CASE arg.kind = "Pure" -> Ok(CallArgPure(arg.value))
      [] arg.kind = "ImmutableOrOwned" ->
            LET r == resolve_object_reference(arg.obj_ref)
            IN  IF r.ok THEN Ok(ImmOrOwnedObject(r.val)) ELSE r
      [] arg.kind = "Shared" -> resolve_shared(packages, commands, arg, arg_idx)
      [] arg.kind = "Receiving" ->
            LET r == resolve_object_reference(arg.obj_ref)
            IN  IF r.ok THEN Ok(ReceivingObject(r.val)) ELSE r

----------------------------------------------------------------------------
(* Specification SpecRef: resolve_object_reference against a snapshot that  *)
(* holds any history of the coin 0xc1.                                      *)

RECURSIVE HistoryOf(_, _)
HistoryOf(versions, digest) ==
    IF versions = {} THEN <<>>
    ELSE LET m == Max(versions)
         IN  Append(HistoryOf(versions \ {m}, digest), Coin("0xc1", m, digest[m], 10))

Injective(f) == \A a, b \in DOMAIN f : f[a] = f[b] => a = b

Histories ==
    {HistoryOf(S, f) : <<S, f>> \in
        {<<S, f>> \in {<<S0, f0>> : S0 \in SUBSET (1..MaxVersion),
                                     f0 \in [1..MaxVersion -> Digests]} :
            /\ Injective([v \in S |-> f[v]])
            /\ \A v \in (1..MaxVersion) \ S : f[v] = "d1"}}

RefRequests ==
    {UnresolvedObjectReference(id, v, d) :
        id \in {"0xc1", "0xc2", "0xgone"},
        v \in {None} \cup {Some(n) : n \in 1..MaxVersion},
        d \in {None} \cup {Some(x) : x \in Digests}}

NoTx == [stage |-> "none"]
NoIndex == [a \in {"0xsender", "0xsponsor"} |-> <<>>]

InitRef ==
    /\ \E h \in Histories :
          objects = [id \in ObjectIds |->
                        IF id = "0xc1" THEN h
                        ELSE IF id = "0xc2" THEN <<Coin("0xc2", 2, "d2", 50)>>
                        ELSE <<>>]
    /\ owned = NoIndex
    /\ wrapping = FALSE
    /\ req \in RefRequests
    /\ pc = "resolve_object_reference"
    /\ ret = None
    /\ prev = None
    /\ tx = NoTx
    /\ calls = <<>>

\* One call of resolve_object_reference(reader, req); a call repeated on the
\* same snapshot keeps the earlier answer in prev.
CallResolveObjectReference ==
    /\ pc = "resolve_object_reference"
    /\ ret' = Some(resolve_object_reference(req))
    /\ prev' = ret
    /\ UNCHANGED <<objects, owned, wrapping, req, pc, tx, calls>>

\* The caller sends another reference to resolve.
NextReference ==
    /\ pc = "resolve_object_reference"
    /\ IsSome(ret)
    /\ req' \in RefRequests \ {req}
    /\ ret' = None
    /\ prev' = None
    /\ UNCHANGED <<objects, owned, wrapping, pc, tx, calls>>

\* The chain executes a transaction that writes 0xc1: a new latest version.
AdvanceChain ==
    /\ pc = "resolve_object_reference"
    /\ \E v \in 1..MaxVersion, d \in Digests :
          /\ \A i \in 1..Len(objects["0xc1"]) :
                objects["0xc1"][i].version < v /\ objects["0xc1"][i].digest # d
          /\ objects' = [objects EXCEPT !["0xc1"] = Append(@, Coin("0xc1", v, d, 10))]
    /\ ret' = None
    /\ prev' = None
    /\ UNCHANGED <<owned, wrapping, req, pc, tx, calls>>

NextRef == CallResolveObjectReference \/ NextReference \/ AdvanceChain

SpecRef == InitRef /\ [][NextRef]_vars

(* Claims about resolve_object_reference, checked under SpecRef *)

StoredAt(id, version) == {o \in Range(objects[id]) : o.version = version}
Latest(id) == {o \in Range(objects[id]) : \A p \in Range(objects[id]) : p.version <= o.version}
Returned == pc = "resolve_object_reference" /\ IsSome(ret)
DigestMismatch == InvalidInput("provided digest doesn't match")

\* C5: for an (id, version) pair that exists the resolved reference carries
\* exactly the digest stored at that version, and a supplied digest that
\* differs from the fetched object's digest fails with InvalidInput, whether
\* or not the supplied version is correct (and when no version is supplied).
C5_StoredDigestOrMismatch ==
    Returned =>
        LET r == Unwrap(ret)
            fetched == IF IsSome(req.version)
                       THEN StoredAt(req.object_id, Unwrap(req.version))
                       ELSE Latest(req.object_id)
        IN  \A o \in fetched :
                IF IsSome(req.digest) /\ Unwrap(req.digest) # o.digest
                THEN r = Err(DigestMismatch)
                ELSE r = Ok(ObjectRef(req.object_id, o.version, o.digest))

\* C5 witness: a correct version with a wrong digest was rejected.
C5_Witness ==
    /\ Returned
    /\ IsSome(req.version) /\ IsSome(req.digest)
    /\ \E o \in StoredAt(req.object_id, Unwrap(req.version)) : o.digest # Unwrap(req.digest)
    /\ Unwrap(ret) = Err(DigestMismatch)

\* C6: with a version given the reference is of exactly that version, or
\* NotFound(id, version) when that version is absent even if other versions
\* exist; with no version given it is the most recent version, or NotFound(id)
\* when the object is absent; a repeated call on the unchanged snapshot
\* returns the same answer.
C6_ExactVersionOrLatest ==
    Returned =>
        LET r == Unwrap(ret)
            id == req.object_id
        IN  /\ IsSome(req.version) =>
                /\ StoredAt(id, Unwrap(req.version)) = {} =>
                      r = Err(NotFound(id, req.version))
                /\ StoredAt(id, Unwrap(req.version)) # {} =>
                      IF r.ok THEN r.val.id = id /\ r.val.version = Unwrap(req.version)
                      ELSE r.err = DigestMismatch /\ IsSome(req.digest)
            /\ ~IsSome(req.version) =>
                /\ objects[id] = <<>> => r = Err(NotFound(id, None))
                /\ objects[id] # <<>> =>
                      IF r.ok
                      THEN /\ r.val.id = id
                           /\ \A o \in Range(objects[id]) : o.version <= r.val.version
                           /\ StoredAt(id, r.val.version) # {}
                      ELSE r.err = DigestMismatch /\ IsSome(req.digest)
            /\ IsSome(prev) => prev = ret

\* C6 witness: a version that is absent while other versions of the object
\* exist was answered NotFound(id, version), twice in a row.
C6_Witness ==
    /\ Returned
    /\ IsSome(req.version)
    /\ objects[req.object_id] # <<>>
    /\ StoredAt(req.object_id, Unwrap(req.version)) = {}
    /\ Unwrap(ret) = Err(NotFound(req.object_id, req.version))
    /\ prev = ret

\* C6 second case reached: the latest of several versions was returned.
C6_LatestReached ==
    /\ Returned /\ ~IsSome(req.version) /\ Len(objects[req.object_id]) > 1
    /\ Unwrap(ret).ok

----------------------------------------------------------------------------
(* resolve_ptb *)

\* inputs.into_iter().enumerate().map(resolve_arg).collect::<Result<_>>():
\* the inputs from place i on (one-based here, arg_idx = i - 1), appended to
\* acc; the first error ends the collection.
RECURSIVE resolve_inputs(_, _, _, _, _)
resolve_inputs(packages, commands, inputs, i, acc) ==
    IF i > Len(inputs) THEN Ok(acc)
    ELSE LET r == resolve_arg(packages, commands, inputs[i], i - 1)
         IN  IF r.ok
             THEN resolve_inputs(packages, commands, inputs, i + 1, Append(acc, r.val))
             ELSE r

\* The same collection with every input scanned as input 0.
RECURSIVE resolve_inputs_unindexed(_, _, _, _, _)
resolve_inputs_unindexed(packages, commands, inputs, i, acc) ==
    IF i > Len(inputs) THEN Ok(acc)
    ELSE LET r == resolve_arg(packages, commands, inputs[i], 0)
         IN  IF r.ok
             THEN resolve_inputs_unindexed(packages, commands, inputs, i + 1,
                                           Append(acc, r.val))
             ELSE r

\* Command -> sui_types Command (TryInto): the command keeps its shape, only
\* the type of the enclosing structure changes.
convert_command(command) == command

ProgrammableTransaction(inputs, commands) == [inputs |-> inputs, commands |-> commands]

resolve_ptb_unindexed(packages, unresolved_ptb) ==
    LET inputs == resolve_inputs_unindexed(packages, unresolved_ptb.commands,
                                           unresolved_ptb.inputs, 1, <<>>)
    IN  IF ~inputs.ok THEN inputs
        ELSE Ok(ProgrammableTransaction(inputs.val,
                    [i \in 1..Len(unresolved_ptb.commands) |->
                        convert_command(unresolved_ptb.commands[i])]))

resolve_ptb(packages, unresolved_ptb) ==
    LET inputs == resolve_inputs(packages, unresolved_ptb.commands,
                                 unresolved_ptb.inputs, 1, <<>>)
    IN  IF ~inputs.ok THEN inputs
        ELSE Ok(ProgrammableTransaction(inputs.val,
                    [i \in 1..Len(unresolved_ptb.commands) |->
                        convert_command(unresolved_ptb.commands[i])]))

----------------------------------------------------------------------------
(* Machine arithmetic.  An overflowing operation panics when the build has  *)
(* overflow checks and wraps when it has none (variable wrapping).          *)

Modulus == 2 ^ WordBits
Half == 2 ^ (WordBits - 1)

Panic == [ok |-> FALSE, err |-> [kind |-> "panic", message |-> "arithmetic overflow"]]

\* x as i64
as_i64(x) == IF x >= Half THEN x - Modulus ELSE x
\* x as u64, of an i64
as_u64(x) == x % Modulus

\* The u64 result of an operation whose mathematical result is n.
u64_result(n) ==
    IF 0 <= n /\ n < Modulus THEN Ok(n)
    ELSE IF wrapping THEN Ok(n % Modulus) ELSE Panic

\* The i64 result of an operation whose mathematical result is n.
i64_result(n) ==
    IF -Half <= n /\ n < Half THEN Ok(n)
    ELSE IF wrapping THEN Ok(as_i64(n % Modulus)) ELSE Panic

----------------------------------------------------------------------------
(* estimate_gas_budget_from_gas_cost *)

GAS_SAFE_OVERHEAD == 1000

GasCostSummary(computation_cost, storage_cost, storage_rebate) ==
    [computation_cost |-> computation_cost, storage_cost |-> storage_cost,
     storage_rebate |-> storage_rebate]

\* GasCostSummary::net_gas_usage: computation + storage - rebate, as i64.
net_gas_usage(summary) ==
    LET paid == i64_result(as_i64(summary.computation_cost) + as_i64(summary.storage_cost))
    IN  IF ~paid.ok THEN paid
        ELSE i64_result(paid.val - as_i64(summary.storage_rebate))

estimate_gas_budget_from_gas_cost(gas_cost_summary, reference_gas_price) ==
    LET safe_overhead == u64_result(GAS_SAFE_OVERHEAD * reference_gas_price)
    IN  IF ~safe_overhead.ok THEN safe_overhead
        ELSE
        LET computation_cost_with_overhead ==
                u64_result(gas_cost_summary.computation_cost + safe_overhead.val)
        IN  IF ~computation_cost_with_overhead.ok THEN computation_cost_with_overhead
            ELSE
            LET net == net_gas_usage(gas_cost_summary)
            IN  IF ~net.ok THEN net
                ELSE
                LET gas_usage == i64_result(net.val + as_i64(safe_overhead.val))
                IN  IF ~gas_usage.ok THEN gas_usage
                    ELSE LET other == IF gas_usage.val < 0 THEN 0
                                      ELSE as_u64(gas_usage.val)
                         IN  Ok(IF computation_cost_with_overhead.val >= other
                                THEN computation_cost_with_overhead.val ELSE other)

----------------------------------------------------------------------------
(* select_gas *)

Sponsor == "0xsponsor"
Addresses == {Sender, Sponsor}

ObjectInfo(object_id, type_) == [object_id |-> object_id, type_ |-> type_]

InsufficientGas == InvalidInput("unable to select sufficient gas coins")

\* filter(is_gas_coin).filter(not an input).filter_map(get_object)
\* .filter_map(GasCoin::try_from): the (reference, value) pairs of the infos
\* from place i on.
RECURSIVE gas_coins_from(_, _, _)
gas_coins_from(infos, input_objects, i) ==
    IF i > Len(infos) THEN <<>>
    ELSE LET info == infos[i]
             object == get_object(info.object_id)
             rest == gas_coins_from(infos, input_objects, i + 1)
         IN  IF /\ info.type_ = "gas_coin"
                /\ info.object_id \notin input_objects
                /\ IsSome(object)
                /\ Unwrap(object).type_ = "gas_coin"
             THEN <<[object_ref |-> ObjectRef(info.object_id, Unwrap(object).version,
                                              Unwrap(object).digest),
                     value |-> Unwrap(object).value]>> \o rest
             ELSE rest

\* The same chain of filters without the filter on the input objects.
RECURSIVE gas_coins_with_inputs_from(_, _, _)
gas_coins_with_inputs_from(infos, input_objects, i) ==
    IF i > Len(infos) THEN <<>>
    ELSE LET info == infos[i]
             object == get_object(info.object_id)
             rest == gas_coins_with_inputs_from(infos, input_objects, i + 1)
         IN  IF /\ info.type_ = "gas_coin"
                /\ IsSome(object)
                /\ Unwrap(object).type_ = "gas_coin"
             THEN <<[object_ref |-> ObjectRef(info.object_id, Unwrap(object).version,
                                              Unwrap(object).digest),
                     value |-> Unwrap(object).value]>> \o rest
             ELSE rest

\* Iterator::take
take(s, n) == SubSeq(s, 1, IF n < Len(s) THEN n ELSE Len(s))

\* The loop of select_gas over the coins from place i on: every coin is
\* pushed and its value added.
RECURSIVE accumulate(_, _, _, _)
accumulate(coins, i, selected_gas, selected_gas_value) ==
    IF i > Len(coins) THEN Ok([selected_gas |-> selected_gas,
                               selected_gas_value |-> selected_gas_value])
    ELSE LET sum == u64_result(selected_gas_value + coins[i].value)
         IN  IF ~sum.ok THEN sum
             ELSE accumulate(coins, i + 1, Append(selected_gas, coins[i].object_ref),
                             sum.val)

select_gas_from(gas_coins, budget) ==
    LET acc == accumulate(gas_coins, 1, <<>>, 0)
    IN  IF ~acc.ok THEN acc
        ELSE IF acc.val.selected_gas_value >= budget
             THEN Ok(acc.val.selected_gas)
             ELSE Err(InsufficientGas)

select_gas_unfiltered(owner, budget, max_gas_payment_objects, input_objects) ==
    select_gas_from(take(gas_coins_with_inputs_from(owned[owner], input_objects, 1),
                         max_gas_payment_objects), budget)

select_gas_unchecked(owner, budget, max_gas_payment_objects, input_objects) ==
    LET acc == accumulate(take(gas_coins_from(owned[owner], input_objects, 1),
                               max_gas_payment_objects), 1, <<>>, 0)
    IN  IF ~acc.ok THEN acc ELSE Ok(acc.val.selected_gas)

select_gas(owner, budget, max_gas_payment_objects, input_objects) ==
    select_gas_from(take(gas_coins_from(owned[owner], input_objects, 1),
                         max_gas_payment_objects), budget)

----------------------------------------------------------------------------
(* resolve_unresolved_transaction *)

GasData(payment, owner, price, budget) ==
    [payment |-> payment, owner |-> owner, price |-> price, budget |-> budget]

TransactionData(sender, gas_data, kind, expiration) ==
    [sender |-> sender, gas_data |-> gas_data, kind |-> kind, expiration |-> expiration]

\* objects.into_iter().map(resolve_object_reference).collect::<Result<Vec<_>>>()
RECURSIVE resolve_payment(_, _, _)
resolve_payment(refs, i, acc) ==
    IF i > Len(refs) THEN Ok(acc)
    ELSE LET r == resolve_object_reference(refs[i])
         IN  IF r.ok THEN resolve_payment(refs, i + 1, Append(acc, r.val)) ELSE r

resolve_unresolved_transaction(packages, reference_gas_price, max_gas_budget, unresolved) ==
    LET sender == unresolved.sender
        gas_payment == unresolved.gas_payment
        payment == IF IsSome(gas_payment)
                   THEN resolve_payment(Unwrap(gas_payment).objects, 1, <<>>)
                   ELSE Ok(<<>>)
    IN  IF ~payment.ok THEN payment
        ELSE
        LET gas_data ==
                IF IsSome(gas_payment)
                THEN GasData(payment.val, Unwrap(gas_payment).owner,
                             IF IsSome(Unwrap(gas_payment).price)
                             THEN Unwrap(Unwrap(gas_payment).price)
                             ELSE reference_gas_price,
                             IF IsSome(Unwrap(gas_payment).budget)
                             THEN Unwrap(Unwrap(gas_payment).budget)
                             ELSE max_gas_budget)
                ELSE GasData(<<>>, sender, reference_gas_price, max_gas_budget)
            ptb == resolve_ptb(packages, unresolved.ptb)
        IN  IF ~ptb.ok THEN ptb
            ELSE Ok(TransactionData(sender, gas_data, ptb.val,
                                    unresolved.expiration))

\* TransactionData::input_objects: the objects the transaction takes as
\* inputs, each with its kind.
input_objects(transaction) ==
    LET inputs == transaction.kind.inputs
        commands == transaction.kind.commands
    IN  {[kind |-> "ImmOrOwnedMoveObject", id |-> inputs[i].ref.id] :
            i \in {j \in 1..Len(inputs) : inputs[j].kind \in {"ImmOrOwnedObject", "Receiving"}}}
        \cup {[kind |-> "SharedMoveObject", id |-> inputs[i].id] :
                i \in {j \in 1..Len(inputs) : inputs[j].kind = "SharedObject"}}
        \cup {[kind |-> "MovePackage", id |-> commands[i].package] :
                i \in {j \in 1..Len(commands) : commands[j].kind = "MoveCall"}}
        \cup {[kind |-> "ImmOrOwnedMoveObject", id |-> transaction.gas_data.payment[i].id] :
                i \in 1..Len(transaction.gas_data.payment)}

\* The ids resolve_transaction hands to select_gas: those of the
\* ImmOrOwnedMoveObject inputs.
owned_input_ids(transaction) ==
    {o.id : o \in {k \in input_objects(transaction) : k.kind = "ImmOrOwnedMoveObject"}}

----------------------------------------------------------------------------
(* The snapshot the argument, body and transaction specifications read *)

PackageModules ==
    [m |-> [f |-> <<"Reference", "MutableReference">>, g |-> <<"Struct", "U64">>]]

\* The objects on chain, the coins worth 100, 50 and 30 units.
SnapshotOf(unit) ==
    [id \in ObjectIds |->
        CASE id = "0xc1" -> <<Coin(id, 1, "d1", 100 * unit), Coin(id, 2, "d2", 100 * unit)>>
          [] id = "0xc2" -> <<Coin(id, 2, "d2", 50 * unit)>>
          [] id = "0xc3" -> <<Coin(id, 1, "d3", 30 * unit)>>
          [] id = "0xnft" ->
                <<[id |-> id, version |-> 1, digest |-> "d1", owner |-> AddressOwner(Sender),
                   type_ |-> "other", value |-> 0, modules |-> NoModules]>>
          [] id = "0xshared" ->
                <<[id |-> id, version |-> 3, digest |-> "d3", owner |-> SharedOwner(1),
                   type_ |-> "other", value |-> 0, modules |-> NoModules]>>
          [] id = "0xpkg" ->
                <<[id |-> id, version |-> 1, digest |-> "d1", owner |-> ImmutableOwner,
                   type_ |-> "package", value |-> 0, modules |-> PackageModules]>>
          [] OTHER -> <<>>]

Snapshot == SnapshotOf(1)

----------------------------------------------------------------------------
(* Specification SpecArg: resolve_arg of the shared input 0 over every       *)
(* command list of the universe below.                                       *)

ArgLists == SeqsUpTo({Input(0), Input(1)}, MaxArgs)

ArgCommands ==
    {MoveCall("0xpkg", "m", fn, args) : fn \in {"f", "g", "nope"}, args \in ArgLists}
    \cup {TransferObjects(<<Input(0)>>, Input(1)), TransferObjects(<<Input(1), Input(0)>>, Input(1)),
          SplitCoins(Input(0), <<Input(1)>>), SplitCoins(Input(1), <<Input(0)>>),
          MergeCoins(Input(0), <<Input(1)>>), MergeCoins(Input(1), <<Input(1), Input(0)>>),
          MergeCoins(Result(0), <<Input(1)>>),
          MakeMoveVector(<<Input(0)>>), MakeMoveVector(<<Result(0), Input(1)>>),
          Publish, Upgrade(Input(0)), Upgrade(Result(0))}

InitArg ==
    /\ objects = Snapshot
    /\ owned = NoIndex
    /\ wrapping = FALSE
    /\ \E commands \in SeqsUpTo(ArgCommands, MaxCommands) :
          req = [commands |-> commands, arg |-> Shared("0xshared", 0, FALSE), arg_idx |-> 0]
    /\ pc = "resolve_arg"
    /\ ret = None
    /\ prev = None
    /\ tx = NoTx
    /\ calls = <<>>

\* resolve_arg(reader, called_packages, commands, arg, arg_idx), called as
\* resolve_ptb calls it: after called_packages succeeded on the same commands.
CallResolveArg ==
    /\ pc = "resolve_arg"
    /\ ~IsSome(ret)
    /\ called_packages(req.commands).ok
    /\ ret' = Some(resolve_arg(called_packages(req.commands).val,
                               req.commands, req.arg, req.arg_idx))
    /\ UNCHANGED <<objects, owned, wrapping, req, pc, prev, tx, calls>>

NextArg == CallResolveArg

SpecArg == InitArg /\ [][NextArg]_vars

(* Claims about the mutability inference, checked under SpecArg *)

ArgReturned == pc = "resolve_arg" /\ IsSome(ret)

\* Every slot of the command that holds the input (a single-field operand
\* counts as slot 0).
ConsumingSlots(command, arg_idx) ==
    LET slots(elems) == {j - 1 : j \in {i \in 1..Len(elems) : elems[i] = Input(arg_idx)}}
        field(a) == IF a = Input(arg_idx) THEN {0} ELSE {}
    IN  CASE command.kind = "MoveCall" -> slots(command.arguments)
          [] command.kind = "TransferObjects" -> slots(command.objects)
          [] command.kind = "SplitCoins" -> field(command.coin)
          [] command.kind = "MergeCoins" ->
                field(command.coin) \cup slots(command.coins_to_merge)
          [] command.kind = "MakeMoveVector" -> slots(command.elements)
          [] command.kind = "Upgrade" -> field(command.ticket)
          [] OTHER -> {}

\* What one use site says on its own about mutability.
SiteContribution(command, slot) ==
    CASE command.kind = "MoveCall" ->
            /\ command.function \in DOMAIN PackageModules.m
            /\ slot < Len(PackageModules.m[command.function])
            /\ PackageModules.m[command.function][slot + 1] \in {"MutableReference", "Struct"}
      [] command.kind \in {"SplitCoins", "MergeCoins", "MakeMoveVector"} -> TRUE
      [] OTHER -> FALSE

\* C1: the mutable flag resolve_arg computes for a shared input is the OR,
\* over every (command, slot) that consumes the input, of the site's own
\* contribution, several slots of one command included.
C1_MutableIsOrOverAllSites ==
    (ArgReturned /\ Unwrap(ret).ok) =>
        Unwrap(ret).val.mutable =
            (\E i \in 1..Len(req.commands) :
                \E slot \in ConsumingSlots(req.commands[i], req.arg_idx) :
                    SiteContribution(req.commands[i], slot))

Reorderings(s) ==
    {[i \in 1..Len(s) |-> s[p[i]]] :
        p \in {q \in [1..Len(s) -> 1..Len(s)] : \A a, b \in 1..Len(s) : q[a] = q[b] => a = b}}

\* C10: the result of resolving a shared input (the mutable flag or the
\* InvalidInput error) is the same for every order of the commands.
C10_ScanOrderIndependent ==
    ArgReturned =>
        \A commands \in Reorderings(req.commands) :
            resolve_arg(called_packages(req.commands).val, commands, req.arg, req.arg_idx)
                = Unwrap(ret)

----------------------------------------------------------------------------
(* Specification SpecPtb: resolve_ptb over every input list of the universe *)
(* below, against a few command lists.                                      *)

AssertedVersions == {1, 5}

PtbInputs ==
    {Pure("bytes"),
     ImmutableOrOwned(UnresolvedObjectReference("0xc1", None, None)),
     ImmutableOrOwned(UnresolvedObjectReference("0xc1", Some(1), Some("d1"))),
     ImmutableOrOwned(UnresolvedObjectReference("0xgone", None, None)),
     Receiving(UnresolvedObjectReference("0xc2", None, None))}
    \cup {Shared(id, v, m) : id \in {"0xshared", "0xc1"}, v \in AssertedVersions,
                              m \in BOOLEAN}

PtbCommandLists ==
    {s \in {<<>>,
            <<MoveCall("0xpkg", "m", "f", <<Input(0)>>)>>,
            <<MoveCall("0xpkg", "m", "f", <<Input(0), Input(1)>>)>>,
            <<MoveCall("0xpkg", "m", "g", <<Input(1), Input(0)>>)>>,
            <<MoveCall("0xpkg", "m", "nope", <<Input(1)>>)>>,
            <<SplitCoins(Input(1), <<Input(0)>>), TransferObjects(<<Input(0)>>, Input(1))>>,
            <<TransferObjects(<<Input(1)>>, Input(0)), MakeMoveVector(<<Input(0)>>)>>,
            <<Upgrade(Input(0)), Publish, MergeCoins(Input(1), <<Input(0)>>)>>} :
        Len(s) <= MaxCommands}

InitPtb ==
    /\ objects = Snapshot
    /\ owned = NoIndex
    /\ wrapping = FALSE
    /\ \E inputs \in SeqsUpTo(PtbInputs, MaxInputs), commands \in PtbCommandLists :
          req = [inputs |-> inputs, commands |-> commands]
    /\ pc = "resolve_ptb"
    /\ ret = None
    /\ prev = None
    /\ tx = NoTx
    /\ calls = <<>>

\* resolve_ptb(reader, called_packages, unresolved_ptb), called as
\* resolve_unresolved_transaction calls it: after called_packages succeeded.
CallResolvePtb ==
    /\ pc = "resolve_ptb"
    /\ ~IsSome(ret)
    /\ called_packages(req.commands).ok
    /\ ret' = Some(resolve_ptb(called_packages(req.commands).val, req))
    /\ UNCHANGED <<objects, owned, wrapping, req, pc, prev, tx, calls>>

NextPtb == CallResolvePtb

SpecPtb == InitPtb /\ [][NextPtb]_vars

(* Claims about the body resolver, checked under SpecPtb *)

PtbReturned == pc = "resolve_ptb" /\ IsSome(ret)

\* The request with the caller-asserted fields of the Shared input i replaced.
Reasserted(request, i, version, mutable) ==
    [request EXCEPT !.inputs[i].initial_shared_version = version,
                    !.inputs[i].mutable = mutable]

\* C8: the caller-asserted initial_shared_version and mutable of a Shared
\* input do not influence the result: a request that differs only in them
\* resolves to the same outcome, the resolved initial shared version is the
\* one of the object's on-chain Shared owner and the resolved flag is the
\* one the use sites give.
C8_AssertedFieldsIgnored ==
    PtbReturned =>
        \A i \in 1..Len(req.inputs) :
            req.inputs[i].kind = "Shared" =>
                /\ \A v \in AssertedVersions, m \in BOOLEAN :
                      resolve_ptb(called_packages(req.commands).val, Reasserted(req, i, v, m))
                          = Unwrap(ret)
                /\ Unwrap(ret).ok =>
                      LET resolved == Unwrap(ret).val.inputs[i]
                          scanned == scan_uses(called_packages(req.commands).val,
                                               find_arg_uses(i - 1, req.commands), 1)
                      IN  /\ resolved.kind = "SharedObject"
                          /\ \E o \in Latest(req.inputs[i].object_id) :
                                /\ o.owner.kind = "Shared"
                                /\ resolved.initial_shared_version =
                                      o.owner.initial_shared_version
                          /\ resolved.mutable = scanned.val

\* C8 witness: a Shared input asserted mutable with a wrong initial version
\* was resolved to the on-chain version and to mutable = false.
C8_Witness ==
    /\ PtbReturned /\ Unwrap(ret).ok
    /\ \E i \in 1..Len(req.inputs) :
          /\ req.inputs[i].kind = "Shared"
          /\ req.inputs[i].mutable
          /\ req.inputs[i].initial_shared_version = 5
          /\ Unwrap(ret).val.inputs[i].initial_shared_version = 1
          /\ ~Unwrap(ret).val.inputs[i].mutable

\* C9: when resolve_ptb succeeds, the resolved input list is as long as the
\* unresolved one and its entry i is the resolution of the unresolved input
\* i, scanned with its own index against the whole command list.
C9_InputOrderPreserved ==
    (PtbReturned /\ Unwrap(ret).ok) =>
        /\ Len(Unwrap(ret).val.inputs) = Len(req.inputs)
        /\ \A i \in 1..Len(req.inputs) :
              Ok(Unwrap(ret).val.inputs[i]) =
                  resolve_arg(called_packages(req.commands).val, req.commands,
                              req.inputs[i], i - 1)

\* C9 witness: two inputs of different kinds were resolved, the second a
\* shared object that its own use sites make mutable.
C9_Witness ==
    /\ PtbReturned /\ Unwrap(ret).ok
    /\ Len(req.inputs) = 2
    /\ req.inputs[1].kind = "ImmutableOrOwned"
    /\ Unwrap(ret).val.inputs[1].kind = "ImmOrOwnedObject"
    /\ Unwrap(ret).val.inputs[2].kind = "SharedObject"
    /\ Unwrap(ret).val.inputs[2].mutable
    /\ scan_uses(called_packages(req.commands).val, find_arg_uses(0, req.commands), 1)
          = Ok(FALSE)

----------------------------------------------------------------------------
(* Specification SpecGas: select_gas over every account index of at most    *)
(* MaxCoins entries, every budget and cap below and every set of inputs.    *)

IndexedIds == {"0xc1", "0xc2", "0xc3", "0xnft", "0xstale"}
Budgets == {0, 100, 120, 150, 151, 180, 181, 500}
PaymentCaps == {0, 1, 2, 5}

\* What the index says of an object: its id and its type.
InfoOf(id) == ObjectInfo(id, IF id = "0xnft" THEN "other" ELSE "gas_coin")

Indexes ==
    {[i \in 1..Len(ids) |-> InfoOf(ids[i])] :
        ids \in {s \in SeqsUpTo(IndexedIds, MaxCoins) :
                    \A i, j \in 1..Len(s) : s[i] = s[j] => i = j}}

InitGas ==
    /\ objects = Snapshot
    /\ \E index \in Indexes : owned = [a \in Addresses |-> IF a = Sender THEN index ELSE <<>>]
    /\ wrapping \in BOOLEAN
    /\ \E owner \in Addresses, budget \in Budgets, cap \in PaymentCaps,
          inputs \in SUBSET {"0xc1", "0xc2"} :
          req = [owner |-> owner, budget |-> budget, max_gas_payment_objects |-> cap,
                 input_objects |-> inputs]
    /\ pc = "select_gas"
    /\ ret = None
    /\ prev = None
    /\ tx = NoTx
    /\ calls = <<>>

\* select_gas(reader, owner, budget, max_gas_payment_objects, input_objects)
CallSelectGas ==
    /\ pc = "select_gas"
    /\ ~IsSome(ret)
    /\ ret' = Some(select_gas(req.owner, req.budget, req.max_gas_payment_objects,
                              req.input_objects))
    /\ UNCHANGED <<objects, owned, wrapping, req, pc, prev, tx, calls>>

NextGas == CallSelectGas

SpecGas == InitGas /\ [][NextGas]_vars

(* Claims about select_gas, checked under SpecGas *)

GasReturned == pc = "select_gas" /\ IsSome(ret)

\* The coins select_gas may take, in index order: gas coins of the owner
\* that exist and are not inputs of the transaction.
EligibleIds ==
    LET ok(i) == /\ owned[req.owner][i].type_ = "gas_coin"
                 /\ owned[req.owner][i].object_id \notin req.input_objects
                 /\ \E o \in Latest(owned[req.owner][i].object_id) : o.type_ = "gas_coin"
        F[i \in 0..Len(owned[req.owner])] ==
            IF i = 0 THEN <<>>
            ELSE IF ok(i) THEN Append(F[i - 1], owned[req.owner][i].object_id) ELSE F[i - 1]
    IN  F[Len(owned[req.owner])]

ValueOf(id) == (CHOOSE o \in Latest(id) : TRUE).value

RECURSIVE SumValues(_)
SumValues(ids) == IF ids = <<>> THEN 0 ELSE ValueOf(Head(ids)) + SumValues(Tail(ids))

IdsOf(refs) == [i \in 1..Len(refs) |-> refs[i].id]

\* C2: the selection is the shortest prefix of the eligible coins (within
\* the cap) whose values reach the budget: accumulation stops as soon as the
\* accumulated value is >= budget.
C2_ShortestSufficientPrefix ==
    (GasReturned /\ Unwrap(ret).ok) =>
        LET selected == IdsOf(Unwrap(ret).val)
            eligible == take(EligibleIds, req.max_gas_payment_objects)
        IN  /\ selected = SubSeq(eligible, 1, Len(selected))
            /\ SumValues(selected) >= req.budget
            /\ \A n \in 0..Len(selected) - 1 : SumValues(SubSeq(eligible, 1, n)) < req.budget

\* C3: select_gas returns references whose coin values sum to at least the
\* budget, or fails with the insufficient-gas error, and it fails exactly
\* when the first max_gas_payment_objects eligible coins do not reach the
\* budget.
C3_NeverUnderFunded ==
    GasReturned =>
        LET r == Unwrap(ret)
            eligible == take(EligibleIds, req.max_gas_payment_objects)
        IN  IF r.ok
            THEN /\ SumValues(IdsOf(r.val)) >= req.budget
                 /\ \A i \in 1..Len(r.val) :
                       \E o \in Latest(r.val[i].id) :
                           r.val[i] = ObjectRef(o.id, o.version, o.digest)
            ELSE /\ r = Err(InsufficientGas)
                 /\ SumValues(eligible) < req.budget

\* C3 witness: both outcomes of the scenario's coins happened for the budget
\* of this call: three coins worth 180 were returned for a budget within
\* reach.
C3_Witness ==
    /\ GasReturned
    /\ Unwrap(ret).ok
    /\ Len(Unwrap(ret).val) = 3
    /\ req.budget = 180

\* C3 second outcome reached: the cap cut the coins below the budget.
C3_FailureReached ==
    /\ GasReturned
    /\ Unwrap(ret) = Err(InsufficientGas)
    /\ SumValues(EligibleIds) >= req.budget
    /\ req.budget > 0

----------------------------------------------------------------------------
(* Specification SpecBudget: estimate_gas_budget_from_gas_cost over cost     *)
(* summaries and gas prices that span the machine word, in both builds.      *)

BudgetValues ==
    {0, 1, GAS_SAFE_OVERHEAD, Half \div GAS_SAFE_OVERHEAD + 1,
     Modulus \div GAS_SAFE_OVERHEAD + 1, Half, Modulus - 1}

InitBudget ==
    /\ objects = Snapshot
    /\ owned = NoIndex
    /\ wrapping \in BOOLEAN
    /\ \E c, s, r, p \in BudgetValues :
          req = [gas_cost_summary |-> GasCostSummary(c, s, r), reference_gas_price |-> p]
    /\ pc = "estimate_gas_budget_from_gas_cost"
    /\ ret = None
    /\ prev = None
    /\ tx = NoTx
    /\ calls = <<>>

\* estimate_gas_budget_from_gas_cost(gas_cost_summary, reference_gas_price)
CallEstimate ==
    /\ pc = "estimate_gas_budget_from_gas_cost"
    /\ ~IsSome(ret)
    /\ ret' = Some(estimate_gas_budget_from_gas_cost(req.gas_cost_summary,
                                                     req.reference_gas_price))
    /\ UNCHANGED <<objects, owned, wrapping, req, pc, prev, tx, calls>>

NextBudget == CallEstimate

SpecBudget == InitBudget /\ [][NextBudget]_vars

(* Claims about the budget estimate, checked under SpecBudget *)

EstimateReturned == pc = "estimate_gas_budget_from_gas_cost" /\ IsSome(ret) /\ Unwrap(ret).ok

\* C7: the estimate is never less than
\* computation_cost + 1000 * reference_gas_price.
C7_EstimateAtLeastComputationPlusOverhead ==
    EstimateReturned =>
        Unwrap(ret).val >= req.gas_cost_summary.computation_cost
                              + 1000 * req.reference_gas_price

\* The same bound where no operation of the estimate overflows.
EstimateBoundWithoutOverflow ==
    (EstimateReturned
        /\ req.gas_cost_summary.computation_cost
              + GAS_SAFE_OVERHEAD * req.reference_gas_price < Half) =>
        Unwrap(ret).val >= req.gas_cost_summary.computation_cost
                              + GAS_SAFE_OVERHEAD * req.reference_gas_price

\* The reference formula: max(A, B) over the integers, with
\* overhead = 1000 * reference_gas_price, A = computation_cost + overhead and
\* B = max(0, computation_cost + storage_cost - storage_rebate) + overhead.
ReferenceEstimate(summary, reference_gas_price) ==
    LET overhead == 1000 * reference_gas_price
        A == summary.computation_cost + overhead
        net == summary.computation_cost + summary.storage_cost - summary.storage_rebate
        B == (IF net < 0 THEN 0 ELSE net) + overhead
    IN  IF A >= B THEN A ELSE B

\* C11: for every cost summary and reference gas price the estimate is
\* max(A, B) of the reference formula, the summaries whose net gas usage is
\* negative included.
C11_EstimateIsMaxOfAAndB ==
    EstimateReturned =>
        Unwrap(ret).val = ReferenceEstimate(req.gas_cost_summary, req.reference_gas_price)

\* Every quantity of the estimate fits an i64: no operation overflows and
\* no cast changes a value.
EstimateFitsI64 ==
    /\ req.gas_cost_summary.computation_cost + req.gas_cost_summary.storage_cost
          + GAS_SAFE_OVERHEAD * req.reference_gas_price < Half
    /\ req.gas_cost_summary.storage_rebate < Half

\* The estimate is the reference formula where every quantity fits an i64.
EstimateIsReferenceWithinI64 ==
    (EstimateReturned /\ EstimateFitsI64) =>
        Unwrap(ret).val = ReferenceEstimate(req.gas_cost_summary, req.reference_gas_price)

\* A summary of negative net gas usage, estimated within the i64 range.
NegativeNetEstimated ==
    /\ EstimateReturned /\ EstimateFitsI64
    /\ req.gas_cost_summary.computation_cost + req.gas_cost_summary.storage_cost
          < req.gas_cost_summary.storage_rebate
    /\ req.reference_gas_price > 0

\* An overhead of 2^63 or more that fits a u64, with nothing overflowing.
OverheadAboveI64Estimated ==
    /\ EstimateReturned
    /\ GAS_SAFE_OVERHEAD * req.reference_gas_price >= Half
    /\ req.gas_cost_summary.computation_cost
          + GAS_SAFE_OVERHEAD * req.reference_gas_price < Modulus
    /\ ~wrapping

----------------------------------------------------------------------------
(* Specification Spec: the handler resolve_transaction, one action per step *)

SystemState == [reference_gas_price |-> 1, protocol_version |-> 1]
ProtocolConfig == [max_tx_gas |-> 5000, max_gas_payment_objects |-> 2]

UnresolvedGasPayment(objs, owner, price, budget) ==
    [objects |-> objs, owner |-> owner, price |-> price, budget |-> budget]

TxInputs ==
    {Pure("bytes"),
     ImmutableOrOwned(UnresolvedObjectReference("0xc1", None, None)),
     ImmutableOrOwned(UnresolvedObjectReference("0xc2", Some(2), Some("d1"))),
     Receiving(UnresolvedObjectReference("0xc2", None, None)),
     Shared("0xshared", 5, FALSE)}

TxCommandLists ==
    {s \in {<<>>,
            <<MoveCall("0xpkg", "m", "f", <<Input(0), Input(1)>>)>>,
            <<MoveCall("0xgone", "m", "f", <<Input(0)>>)>>,
            <<MoveCall("0xc1", "m", "f", <<Input(0)>>)>>,
            <<TransferObjects(<<Input(0)>>, Input(1)), MoveCall("0xpkg", "m", "nope", <<Input(1)>>)>>} :
        Len(s) <= MaxCommands}

TxGasPayments ==
    {None,
     Some(UnresolvedGasPayment(<<>>, Sender, None, None)),
     Some(UnresolvedGasPayment(<<>>, Sender, Some(3), Some(120))),
     Some(UnresolvedGasPayment(<<UnresolvedObjectReference("0xc3", None, None)>>,
                               Sender, None, Some(500))),
     Some(UnresolvedGasPayment(<<UnresolvedObjectReference("0xc3", Some(2), None)>>,
                               Sender, None, None)),
     Some(UnresolvedGasPayment(<<>>, Sponsor, None, Some(0)))}

TxIndexes ==
    {<<>>,
     <<InfoOf("0xc1"), InfoOf("0xc2"), InfoOf("0xc3")>>,
     <<InfoOf("0xnft"), InfoOf("0xc2"), InfoOf("0xstale"), InfoOf("0xc1")>>}

\* What a dry run or a simulation of the executor may answer.
SimulationOutcomes ==
    {Err([kind |-> "Internal", message |-> "simulation failed"]),
     Ok(GasCostSummary(100, 50, 20)),
     Ok(GasCostSummary(10, 0, 30))}

Init ==
    /\ objects = SnapshotOf(20)
    /\ \E index \in TxIndexes :
          owned = [a \in Addresses |-> IF a = Sender THEN index ELSE <<>>]
    /\ wrapping = FALSE
    /\ \E inputs \in SeqsUpTo(TxInputs, MaxInputs), commands \in TxCommandLists,
          gas_payment \in TxGasPayments, simulate \in BOOLEAN :
          req = [transaction |->
                    [sender |-> Sender, gas_payment |-> gas_payment,
                     expiration |-> "None",
                     ptb |-> [inputs |-> inputs, commands |-> commands]],
                 simulate |-> simulate]
    /\ pc = "begin"
    /\ ret = None
    /\ prev = None
    /\ tx = NoTx
    /\ calls = <<>>

\* A call the handler made: its name, the budget it was given (select_gas
\* only) and the error it returned, None when it succeeded.
Call(step, budget, err) == [step |-> step, budget |-> budget, err |-> err]

\* The operator `?`: the call failed and the handler returns its error.
Fail(step, budget, error) ==
    /\ pc' = "done"
    /\ ret' = Some(Err(error))
    /\ calls' = Append(calls, Call(step, budget, Some(error)))
    /\ UNCHANGED <<objects, owned, wrapping, req, prev, tx>>

\* Lines 99-120: the executor, the system state and the protocol config.
Begin ==
    /\ pc = "begin"
    /\ \/ Fail("executor", None, [kind |-> "Internal", message |-> "No Transaction Executor"])
       \/ Fail("get_system_state_summary", None,
               [kind |-> "Internal", message |-> "unable to read the system state"])
       \/ Fail("get_for_version_if_supported", None,
               [kind |-> "Internal", message |-> "unable to get current protocol config"])
       \/ /\ pc' = "called_packages"
          /\ tx' = [reference_gas_price |-> SystemState.reference_gas_price]
          /\ UNCHANGED <<objects, owned, wrapping, req, ret, prev, calls>>

\* Lines 121-126: called_packages and the user's budget.
CalledPackages ==
    /\ pc = "called_packages"
    /\ \E packages \in {called_packages(req.transaction.ptb.commands)},
          gas_payment \in {req.transaction.gas_payment} :
          IF ~packages.ok THEN Fail("called_packages", None, packages.err)
          ELSE /\ pc' = "resolve_unresolved_transaction"
               /\ tx' = [reference_gas_price |-> tx.reference_gas_price,
                         called_packages |-> packages.val,
                         user_provided_budget |->
                             IF IsSome(gas_payment) THEN Unwrap(gas_payment).budget
                             ELSE None]
               /\ calls' = Append(calls, Call("called_packages", None, None))
               /\ UNCHANGED <<objects, owned, wrapping, req, ret, prev>>

\* Lines 127-133: resolve_unresolved_transaction.
ResolveUnresolvedTransaction ==
    /\ pc = "resolve_unresolved_transaction"
    /\ \E resolved \in {resolve_unresolved_transaction(tx.called_packages,
                              tx.reference_gas_price, ProtocolConfig.max_tx_gas,
                              req.transaction)} :
          IF ~resolved.ok THEN Fail("resolve_unresolved_transaction", None, resolved.err)
          ELSE /\ pc' = "budget"
               /\ tx' = [reference_gas_price |-> tx.reference_gas_price,
                         user_provided_budget |-> tx.user_provided_budget,
                         resolved_transaction |-> resolved.val]
               /\ calls' = Append(calls, Call("resolve_unresolved_transaction", None, None))
               /\ UNCHANGED <<objects, owned, wrapping, req, ret, prev>>

\* Lines 141-149: the dry run of the executor and the estimate made of it.
DryRun ==
    \E simulation_result \in SimulationOutcomes :
       IF ~simulation_result.ok
       THEN Fail("executor.simulate_transaction", None, simulation_result.err)
       ELSE \E estimate \in {estimate_gas_budget_from_gas_cost(
                                 simulation_result.val, tx.reference_gas_price)} :
               IF ~estimate.ok
               THEN Fail("estimate_gas_budget_from_gas_cost", None, estimate.err)
               ELSE /\ pc' = "select_gas"
                    /\ tx' = [resolved_transaction |->
                                 [tx.resolved_transaction EXCEPT
                                     !.gas_data.budget = estimate.val],
                              budget |-> estimate.val,
                              selected |-> FALSE]
                    /\ calls' = Append(calls, Call("executor.simulate_transaction", None, None))
                    /\ UNCHANGED <<objects, owned, wrapping, req, ret, prev>>

\* A handler that makes the dry run whatever the request's budget.
Budget_always_estimating ==
    /\ pc = "budget"
    /\ DryRun

\* Lines 137-150: the user's budget, or a dry run and its estimate.
Budget ==
    /\ pc = "budget"
    /\ IF IsSome(tx.user_provided_budget)
       THEN /\ pc' = "select_gas"
            /\ tx' = [resolved_transaction |-> tx.resolved_transaction,
                      budget |-> Unwrap(tx.user_provided_budget),
                      selected |-> FALSE]
            /\ UNCHANGED <<objects, owned, wrapping, req, ret, prev, calls>>
       ELSE DryRun

\* Lines 153-173: gas selection when the resolved payment is empty.
SelectGas ==
    /\ pc = "select_gas"
    /\ IF tx.resolved_transaction.gas_data.payment = <<>>
       THEN \/ Fail("input_objects", None,
                    [kind |-> "Internal", message |-> "invalid input objects"])
            \/ \E gas_coins \in {select_gas(tx.resolved_transaction.gas_data.owner, tx.budget,
                                            ProtocolConfig.max_gas_payment_objects,
                                            owned_input_ids(tx.resolved_transaction))} :
                  IF ~gas_coins.ok THEN Fail("select_gas", Some(tx.budget), gas_coins.err)
                  ELSE /\ pc' = "simulate"
                       /\ tx' = [resolved_transaction |->
                                    [tx.resolved_transaction EXCEPT
                                        !.gas_data.payment = gas_coins.val],
                                 budget |-> tx.budget,
                                 selected |-> TRUE]
                       /\ calls' = Append(calls, Call("select_gas", Some(tx.budget), None))
                       /\ UNCHANGED <<objects, owned, wrapping, req, ret, prev>>
       ELSE /\ pc' = "simulate"
            /\ UNCHANGED <<objects, owned, wrapping, req, ret, prev, tx, calls>>

\* Lines 175-185: the simulation of the resolved transaction, when asked for.
Simulate ==
    /\ pc = "simulate"
    /\ IF req.simulate
       THEN \/ Fail("try_into", None,
                    [kind |-> "Internal", message |-> "unable to convert the transaction"])
            \/ \E simulation \in SimulationOutcomes :
                  IF ~simulation.ok
                  THEN Fail("simulate_transaction_impl", None, simulation.err)
                  ELSE /\ pc' = "respond"
                       /\ tx' = [resolved_transaction |-> tx.resolved_transaction,
                                 budget |-> tx.budget, selected |-> tx.selected,
                                 simulation |-> Some(simulation.val)]
                       /\ calls' = Append(calls, Call("simulate_transaction_impl", None, None))
                       /\ UNCHANGED <<objects, owned, wrapping, req, ret, prev>>
       ELSE /\ pc' = "respond"
            /\ tx' = [resolved_transaction |-> tx.resolved_transaction,
                      budget |-> tx.budget, selected |-> tx.selected,
                      simulation |-> None]
            /\ UNCHANGED <<objects, owned, wrapping, req, ret, prev, calls>>

\* Lines 187-194: the response.
Respond ==
    /\ pc = "respond"
    /\ \/ Fail("into_response", None,
               [kind |-> "Internal", message |-> "unable to convert the transaction"])
       \/ /\ pc' = "done"
          /\ ret' = Some(Ok([transaction |-> tx.resolved_transaction,
                             simulation |-> tx.simulation]))
          /\ UNCHANGED <<objects, owned, wrapping, req, prev, tx, calls>>

Next ==
    \/ Begin
    \/ CalledPackages
    \/ ResolveUnresolvedTransaction
    \/ Budget
    \/ SelectGas
    \/ Simulate
    \/ Respond

Spec == Init /\ [][Next]_vars

(* Claims about resolve_transaction, checked under Spec *)

Responded == pc = "done" /\ IsSome(ret) /\ Unwrap(ret).ok

\* The ids of the objects the resolved transaction takes as inputs.
InputObjectIds(transaction) ==
    {transaction.kind.inputs[i].ref.id :
        i \in {j \in 1..Len(transaction.kind.inputs) :
                  transaction.kind.inputs[j].kind \in {"ImmOrOwnedObject", "Receiving"}}}
    \cup {transaction.kind.inputs[i].id :
            i \in {j \in 1..Len(transaction.kind.inputs) :
                      transaction.kind.inputs[j].kind = "SharedObject"}}

CallOrder ==
    <<"executor", "get_system_state_summary", "get_for_version_if_supported",
      "called_packages", "resolve_unresolved_transaction",
      "executor.simulate_transaction", "estimate_gas_budget_from_gas_cost",
      "input_objects", "select_gas", "try_into", "simulate_transaction_impl",
      "into_response">>

Rank(step) == CHOOSE i \in 1..Len(CallOrder) : CallOrder[i] = step

Performed(step) == \E i \in 1..Len(calls) : calls[i].step = step

\* A call that comes after the step in the source was made.
Later(step) == \E i \in 1..Len(calls) : Rank(calls[i].step) > Rank(step)

\* The run went past the step: the handler is at one of the positions
\* after it, or it responded, or it made a later call.
Past(step, positions) == pc \in positions \/ Responded \/ Later(step)

\* The budget of the request, None when it gives none.
UserBudget ==
    IF IsSome(req.transaction.gas_payment)
    THEN Unwrap(req.transaction.gas_payment).budget ELSE None

\* The payment objects of the request; their resolution keeps their number.
RequestedPayment ==
    IF IsSome(req.transaction.gas_payment)
    THEN Unwrap(req.transaction.gas_payment).objects ELSE <<>>

\* The budget of the resolved transaction: the user's, or the estimate
\* written into it.
FinalBudget ==
    IF IsSome(UserBudget) THEN Unwrap(UserBudget)
    ELSE tx.resolved_transaction.gas_data.budget

\* C12: the calls of a run are made in the order of the source, each at most
\* once; the dry run is made if and only if the request gives no budget, the
\* gas selection if and only if the resolved payment is empty and with the
\* final budget, the simulation if and only if it is requested; a call that
\* fails is the last call of the run, which ends with the error of that call.
C12_StepsInOrderFirstFailureEnds ==
    /\ \A i, j \in 1..Len(calls) :
          i < j => Rank(calls[i].step) < Rank(calls[j].step)
    /\ \A i \in 1..Len(calls) :
          IsSome(calls[i].err) =>
              /\ i = Len(calls)
              /\ pc = "done"
              /\ ret = Some(Err(Unwrap(calls[i].err)))
    /\ (pc = "done" /\ ~Unwrap(ret).ok) =>
          (calls # <<>> /\ IsSome(calls[Len(calls)].err))
    /\ Performed("executor.simulate_transaction") => ~IsSome(UserBudget)
    /\ (Past("estimate_gas_budget_from_gas_cost", {"select_gas", "simulate", "respond"})
          /\ ~IsSome(UserBudget)) => Performed("executor.simulate_transaction")
    /\ Performed("select_gas") => RequestedPayment = <<>>
    /\ (Past("select_gas", {"simulate", "respond"}) /\ RequestedPayment = <<>>)
          => Performed("select_gas")
    /\ \A i \in 1..Len(calls) :
          calls[i].step = "select_gas" => calls[i].budget = Some(FinalBudget)
    /\ Performed("simulate_transaction_impl") => req.simulate
    /\ (Past("simulate_transaction_impl", {"respond"}) /\ req.simulate)
          => Performed("simulate_transaction_impl")

\* C12 witness: a run that made every step, the dry run, the gas selection
\* and the simulation included, and responded.
C12_Witness ==
    /\ Responded
    /\ [i \in 1..Len(calls) |-> calls[i].step] =
          <<"called_packages", "resolve_unresolved_transaction",
            "executor.simulate_transaction", "select_gas", "simulate_transaction_impl">>

\* A run that the dry run ended: no selection and no simulation after it,
\* although the request asked for both.
C12_FailedDryRunReached ==
    /\ pc = "done" /\ ~Unwrap(ret).ok
    /\ calls[Len(calls)].step = "executor.simulate_transaction"
    /\ RequestedPayment = <<>> /\ req.simulate

\* A run with the user's budget: no dry run, and the selection is given the
\* user's budget.
C12_UserBudgetSelectionReached ==
    /\ Responded /\ IsSome(UserBudget)
    /\ Performed("select_gas") /\ ~Performed("executor.simulate_transaction")

====
